---- MODULE Spec2Model ----
(***************************************************************************)
(* Verification model of four units of the alchemy monorepo:               *)
(*   - docs/scripts/gen.js            the documentation generator          *)
(*   - ViewDao/DaoMembersContainer    the DAO members page                 *)
(*   - Reputation (client library)    state / reputationOf observables     *)
(*   - Scheme/Staking/LockRow         one row of the staking locks table   *)
(* Each unit has its own specification (GenSpec, MembersSpec, RepSpec,     *)
(* LockSpec); the variables of the other units keep their initial value.   *)
(*                                                                         *)
(* Strings are sequences of letters.  A letter is a TLA+ string; a few     *)
(* letters stand for a literal that the code only ever handles as a whole  *)
(* ("contracts", ".sol", ".md", ...), so that String.replace, split and    *)
(* path.basename are computed position by position as JavaScript does.     *)
(***************************************************************************)
EXTENDS Integers, Sequences, FiniteSets, TLC

VARIABLES
    \* ---- docs/scripts/gen.js
    pc,          \* position of the script
    fs,          \* the file system: path -> content
    fs0,         \* the file system when the script started
    files,       \* const files = shell.ls(...)
    solcOut,     \* output.contracts of solc.compile, in key order
    output,      \* const output = compile(files)
    idx,         \* index of compileOutput.forEach in render (0-based count done)
    exitCode,    \* argument of shell.exit, NoExit while running
    threw,       \* the step that threw, NoStep if none did
    steps,       \* the steps completed so far, in order
    written,     \* the fs.writeFileSync calls completed so far, in order
    \* ---- ViewDao/DaoMembersContainer.tsx
    route,       \* props.match.params.daoAvatarAddress
    profiles,    \* state.profiles: the addresses that have a profile
    daoSub,      \* state of <Subscribe observable={dao.members()}>
    membersSeen, \* what dao.members() has delivered so far, in order
    memberObs,   \* per member: what its state observable has delivered last
    page,        \* what the default export has rendered
    \* ---- Reputation (client library)
    repAddress,  \* this.address of the Reputation object
    stateItem,   \* the item the reputationContract query returned last
    stateObs,    \* the last notification of this.state
    holders,     \* r.data.reputationHolders of the last reputationOf query
    repOfObs,    \* the last notification of the reputationOf observable
    \* ---- Scheme/Staking/LockRow.tsx
    now,         \* the current time, what moment() reads
    lockData,    \* props.lockData; ref is the identity of the object
    batchTime,   \* props.schemeParams.batchTime
    isLockingEnded, \* props.isLockingEnded
    memo,        \* what the two React.useMemo hooks hold
    row          \* what the last render of the row offers

genVars == <<pc, fs, fs0, files, solcOut, output, idx, exitCode, threw, steps, written>>
membersVars == <<route, profiles, daoSub, membersSeen, memberObs, page>>

repVars == <<repAddress, stateItem, stateObs, holders, repOfObs>>
lockVars == <<now, lockData, batchTime, isLockingEnded, memo, row>>

vars == <<genVars, membersVars, repVars, lockVars>>

otherThanGen == <<membersVars, repVars, lockVars>>
otherThanMembers == <<genVars, repVars, lockVars>>
otherThanRep == <<genVars, membersVars, lockVars>>
otherThanLock == <<genVars, membersVars, repVars>>

(***************************************************************************)
(* Bounds                                                                  *)
(***************************************************************************)
MaxContracts == 2      \* number of keys in the compiler's output
MaxDeliveries == 2     \* number of lists dao.members() delivers
MaxHolders == 2        \* length of a reputationHolders result
MaxTime == 4           \* last instant of the clock
MaxObjects == 2        \* number of lockData objects the row is given

(***************************************************************************)
(* JavaScript string and path helpers                                      *)
(***************************************************************************)
\* String.prototype.indexOf(pat): first position (1-based) of pat in s, 0 if none
IndexOf(s, pat) ==
    LET hits == {i \in 1..(Len(s) - Len(pat) + 1) : SubSeq(s, i, i + Len(pat) - 1) = pat}
    IN  IF hits = {} THEN 0 ELSE CHOOSE i \in hits : \A j \in hits : i <= j

\* String.prototype.replace(pat, rep) with a string pattern: FIRST occurrence only
Replace(s, pat, rep) ==
    LET i == IndexOf(s, pat)
    IN  IF i = 0 THEN s
        ELSE SubSeq(s, 1, i - 1) \o rep \o SubSeq(s, i + Len(pat), Len(s))

\* position of the last "/" of s, 0 if none
LastSlash(s) ==
    LET hits == {i \in 1..Len(s) : s[i] = "/"}
    IN  IF hits = {} THEN 0 ELSE CHOOSE i \in hits : \A j \in hits : j <= i

\* path.basename(p)
Basename(p) == SubSeq(p, LastSlash(p) + 1, Len(p))

\* String.prototype.split(sep) for a one-letter separator
RECURSIVE Split(_, _)
Split(s, sep) ==
    LET hits == {i \in 1..Len(s) : s[i] = sep}
    IN  IF hits = {} THEN <<s>>
        ELSE LET i == CHOOSE k \in hits : \A j \in hits : k <= j
             IN  <<SubSeq(s, 1, i - 1)>> \o Split(SubSeq(s, i + 1, Len(s)), sep)

\* Array.prototype.indexOf(x) !== -1
Includes(arr, x) == \E k \in 1..Len(arr) : arr[k] = x

\* the set of elements of a sequence
Range(seq) == {seq[k] : k \in 1..Len(seq)}

IsPrefix(p, s) == Len(p) <= Len(s) /\ SubSeq(s, 1, Len(p)) = p

(***************************************************************************)
(* gen.js : the world the script runs in                                   *)
(***************************************************************************)
NoExit == -1
NoStep == "none"
Undefined == "undefined"

DotContracts == <<".", "/", "contracts">>          \* './contracts'
DotDocsRef   == <<".", "/", "docs", "/", "ref">>   \* './docs/ref'
DotHeaders   == <<".", "/", "docs", "/", "headers">>
Toc          == <<"toc">>                          \* 'toc'
TocDest      == DotDocsRef \o <<"/", "README", ".md">>
TocHeader    == DotHeaders \o <<"/", "README", ".md">>

\* ./contracts/<dir>/<name>.sol
SourcePath(dir, name) == DotContracts \o <<"/">> \o dir \o <<"/">> \o name \o <<".sol">>

\* the .sol files that may exist two levels under ./contracts, in the order
\* shell.ls lists them
AllSources ==
    << SourcePath(<<"a", ".sol">>, <<"a">>),
       SourcePath(<<"a">>, <<"a">>),
       SourcePath(<<"a">>, <<"b">>) >>

\* a file that the compiler reaches only through the import callback
ImportFile == <<"node_modules", "/", "lib", ".sol">>

ContractNames == {<<"C">>, <<"D">>}
Data == {"d1", "d2"}

\* what may be in ./docs/ref before the run
OldDocs == {TocDest, DotDocsRef \o <<"/", "a", "/", "Old", ".md">>}

\* files outside ./docs/ref and ./contracts that exist before the run
Elsewhere == {TocHeader}

UnderDocsRef(p) == IsPrefix(DotDocsRef \o <<"/">>, p)

\* what a file holds: its kind and, for a rendered contract page, what it renders
Content(kind, file, contractName, data) == <<kind, file, contractName, data>>

\* the initial file systems
InitialFs ==
    { [p \in (srcs \cup old \cup Elsewhere) |->
          IF p \in srcs THEN Content("sol", <<>>, <<>>, "")
          ELSE IF p \in old THEN Content("old", <<>>, <<>>, "")
          ELSE Content("header", <<>>, <<>>, "")] :
      srcs \in SUBSET Range(AllSources), old \in SUBSET OldDocs }

\* fs.writeFileSync(path, content)
WriteFile(f, path, content) ==
    [p \in (DOMAIN f) \cup {path} |-> IF p = path THEN content ELSE f[p]]

\* shell.rm('-rf', dir): nothing at or under dir is left
RmRf(f, dir) ==
    [p \in {q \in DOMAIN f : ~(q = dir \/ IsPrefix(dir \o <<"/">>, q))} |-> f[p]]

\* shell.ls('./contracts/*/*.sol'): the matching files, in listing order
Ls(f) == SelectSeq(AllSources, LAMBDA p : p \in DOMAIN f)

(***************************************************************************)
(* gen.js : compile, destFn, render and the top-level try/catch            *)
(***************************************************************************)
\* the key under which solc reports a contract: 'somefile.sol:somecontract'
KeyOf(c) == c.file \o <<":">> \o c.contractName

\* the outputs solc.compile may return for the input files fl: at most
\* MaxContracts contracts, each from an input file or from an imported file,
\* no key twice
SolcContracts(fl) ==
    [file : Range(fl) \cup {ImportFile}, contractName : ContractNames, data : Data]

SolcOutputs(fl) ==
    UNION { { out \in [1..n -> SolcContracts(fl)] :
                \A j, k \in 1..n : j # k => KeyOf(out[j]) # KeyOf(out[k]) } :
            n \in 0..MaxContracts }

\* one element of Object.keys(output.contracts).map(...)
EntryOfKey(key, data) ==
    LET split == Split(key, ":")
    IN  [file         |-> split[1],
         contractName |-> IF Len(split) >= 2 THEN split[2] ELSE <<Undefined>>,
         data         |-> data]

\* compile without its filter: contracts of imported files are kept too
KeepEntryUnfiltered(fl, e) == TRUE

\* the .filter(({file}) => files.indexOf(file) !== -1) of compile
KeepEntry(fl, e) == Includes(fl, e.file)

\* compile(files), given what solc returned
compile(fl, out) ==
    LET mapped == [k \in 1..Len(out) |-> EntryOfKey(KeyOf(out[k]), out[k].data)]
    IN  SelectSeq(mapped, LAMBDA e : KeepEntry(fl, e))

\* destFn of the main block
destFn(file, name) ==
    IF file = Toc THEN TocDest
    ELSE Replace(Replace(file, DotContracts, DotDocsRef),
                 Basename(file), name \o <<".md">>)

\* the script without its rm: the old reference pages stay
RmLeavesOldDocs ==
    /\ pc = "rm"
    /\ fs' = fs
    /\ steps' = Append(steps, "rm")
    /\ pc' = "ls"
    /\ UNCHANGED <<fs0, files, solcOut, output, idx, exitCode, threw, written, otherThanGen>>

Rm ==
    /\ pc = "rm"
    /\ fs' = RmRf(fs, DotDocsRef)
    /\ steps' = Append(steps, "rm")
    /\ pc' = "ls"
    /\ UNCHANGED <<fs0, files, solcOut, output, idx, exitCode, threw, written, otherThanGen>>

List ==
    /\ pc = "ls"
    /\ files' = Ls(fs)
    /\ steps' = Append(steps, "ls")
    /\ pc' = "compile"
    /\ UNCHANGED <<fs, fs0, solcOut, output, idx, exitCode, threw, written, otherThanGen>>

CompileStep ==
    /\ pc = "compile"
    /\ \E out \in SolcOutputs(files) :
          /\ solcOut' = out
          /\ output' = compile(files, out)
    /\ steps' = Append(steps, "compile")
    /\ pc' = "toc"
    /\ UNCHANGED <<fs, fs0, files, idx, exitCode, threw, written, otherThanGen>>

\* fs.readFileSync, solc or Object.keys(undefined) throws inside compile
CompileThrows ==
    /\ pc = "compile"
    /\ threw' = "compile"
    /\ pc' = "catch"
    /\ UNCHANGED <<fs, fs0, files, solcOut, output, idx, exitCode, steps, written, otherThanGen>>

\* render, up to and including the write of the table of contents
RenderToc ==
    /\ pc = "toc"
    /\ LET tocDest == destFn(Toc, <<Undefined>>)
       IN  /\ fs' = WriteFile(fs, tocDest, Content("toc", <<>>, <<>>, ""))
           /\ written' = Append(written, [path |-> tocDest, entry |-> 0])
    /\ idx' = 0
    /\ steps' = Append(steps, "toc")
    /\ pc' = "each"
    /\ UNCHANGED <<fs0, files, solcOut, output, exitCode, threw, otherThanGen>>

\* the template, fs.readFileSync of the header or fs.writeFileSync throws
RenderTocThrows ==
    /\ pc = "toc"
    /\ threw' = "toc"
    /\ pc' = "catch"
    /\ UNCHANGED <<fs, fs0, files, solcOut, output, idx, exitCode, steps, written, otherThanGen>>

\* one iteration of compileOutput.forEach in render
RenderContract ==
    /\ pc = "each"
    /\ idx < Len(output)
    /\ LET e == output[idx + 1]
           destination == destFn(e.file, e.contractName)
       IN  /\ fs' = WriteFile(fs, destination,
                              Content("contract", e.file, e.contractName, e.data))
           /\ written' = Append(written, [path |-> destination, entry |-> idx + 1])
    /\ idx' = idx + 1
    /\ steps' = Append(steps, "contract")
    /\ UNCHANGED <<pc, fs0, files, solcOut, output, exitCode, threw, otherThanGen>>

\* JSON.parse, the template or fs.writeFileSync throws in an iteration
RenderContractThrows ==
    /\ pc = "each"
    /\ idx < Len(output)
    /\ threw' = "contract"
    /\ pc' = "catch"
    /\ UNCHANGED <<fs, fs0, files, solcOut, output, idx, exitCode, steps, written, otherThanGen>>

\* render returned: shell.exit(0)
Exit0 ==
    /\ pc = "each"
    /\ idx = Len(output)
    /\ exitCode' = 0
    /\ pc' = "done"
    /\ UNCHANGED <<fs, fs0, files, solcOut, output, idx, threw, steps, written, otherThanGen>>

\* a catch block that logs the error and exits 0
CatchExitsZero ==
    /\ pc = "catch"
    /\ exitCode' = 0
    /\ pc' = "done"
    /\ UNCHANGED <<fs, fs0, files, solcOut, output, idx, threw, steps, written, otherThanGen>>

\* catch(e){ ...; shell.exit(1) }
Catch ==
    /\ pc = "catch"
    /\ exitCode' = 1
    /\ pc' = "done"
    /\ UNCHANGED <<fs, fs0, files, solcOut, output, idx, threw, steps, written, otherThanGen>>

(***************************************************************************)
(* DaoMembersContainer.tsx                                                 *)
(***************************************************************************)
NoAddress == "no address"
NoError   == "no error"

MaxMembers == 2       \* length of a members list

Members == {"m1", "m2"}
AddressOf(m) == IF m = "m1" THEN "0xm1" ELSE "0xm2"
Reputations == {0, 5}
ErrorMessages == {"query failed", "network down"}

\* IMemberState values a member's state observable may deliver
MemberStates(m) == [address : {AddressOf(m)}, reputation : Reputations]

\* Member[] values dao.members() may deliver: no member twice
MemberLists ==
    UNION { { l \in [1..n -> Members] : \A j, k \in 1..n : j # k => l[j] # l[k] } :
            n \in 0..MaxMembers }

\* IObservableState of a Subscribe that has received nothing: state.data is
\* undefined (hasData is FALSE and data holds a placeholder of the data's type)
FreshSub(placeholder) == [hasData |-> FALSE, data |-> placeholder, error |-> NoError]

NoMembers == <<>>
NoMemberState == [address |-> "", reputation |-> -1]

\* Subscribe: next(value) stores the value as state.data
SubscribeNext(sub, value) == [sub EXCEPT !.hasData = TRUE, !.data = value]

\* Subscribe: error(e) stores the error as state.error and keeps state.data
SubscribeError(sub, message) == [sub EXCEPT !.error = message]

\* the function given to <Subscribe observable={member.state}>: what it
\* returns for an observable state
MemberView(st, profs) ==
    IF st.error # NoError THEN
        [kind |-> "div", text |-> st.error, address |-> "", reputation |-> -1,
         profile |-> FALSE]
    ELSE IF st.hasData THEN
        [kind |-> "member", text |-> "", address |-> st.data.address,
         reputation |-> st.data.reputation,
         profile |-> st.data.address \in profs]
    ELSE
        [kind |-> "div", text |-> "...loading..", address |-> "", reputation |-> -1,
         profile |-> FALSE]

\* an entry of membersHTML that React renders as nothing
Nothing ==
    [kind |-> Undefined, text |-> "", address |-> "", reputation |-> -1, profile |-> FALSE]

\* the callback of members.map in DaoMembersContainer.render: its body is a
\* block that builds the <Subscribe> element as an expression statement and
\* has no return, so the callback returns undefined
MembersMapCallback(member, obs, profs) == Nothing

\* DaoMembersContainer.render: <div>{membersHTML}</div>
DaoMembersContainerRender(members, obs, profs) ==
    [k \in 1..Len(members) |-> MembersMapCallback(members[k], obs, profs)]

NoChildren == <<>>

\* a default export that looks at state.data before state.error
MembersPageViewDataFirst(sub, obs, profs) ==
    IF sub.hasData THEN
        [view |-> "members", message |-> "", members |-> sub.data,
         children |-> DaoMembersContainerRender(sub.data, obs, profs)]
    ELSE IF sub.error # NoError THEN
        [view |-> "error", message |-> sub.error, members |-> <<>>, children |-> NoChildren]
    ELSE
        [view |-> "loading", message |-> "", members |-> <<>>, children |-> NoChildren]

\* the function given to <Subscribe observable={dao.members()}> by the default export
MembersPageView(sub, obs, profs) ==
    IF sub.error # NoError THEN
        [view |-> "error", message |-> sub.error, members |-> <<>>, children |-> NoChildren]
    ELSE IF sub.hasData THEN
        [view |-> "members", message |-> "", members |-> sub.data,
         children |-> DaoMembersContainerRender(sub.data, obs, profs)]
    ELSE
        [view |-> "loading", message |-> "", members |-> <<>>, children |-> NoChildren]

\* the default export: throws when the route has no DAO address
MembersPage(rt, sub, obs, profs) ==
    IF rt # NoAddress THEN MembersPageView(sub, obs, profs)
    ELSE [view |-> "thrown", message |-> "No dao address specified ", members |-> <<>>,
          children |-> NoChildren]

\* dao.members() delivers a list of members
MembersNext ==
    /\ route # NoAddress
    /\ daoSub.error = NoError
    /\ \E l \in MemberLists :
          /\ daoSub' = SubscribeNext(daoSub, l)
          /\ membersSeen' = Append(membersSeen, [kind |-> "next", list |-> l, message |-> ""])
    /\ Cardinality({k \in 1..Len(membersSeen) : membersSeen[k].kind = "next"}) < MaxDeliveries
    /\ page' = MembersPage(route, daoSub', memberObs, profiles)
    /\ UNCHANGED <<route, profiles, memberObs, otherThanMembers>>

\* dao.members() fails: the observable delivers an error and ends
MembersError ==
    /\ route # NoAddress
    /\ daoSub.error = NoError
    /\ \E e \in ErrorMessages :
          /\ daoSub' = SubscribeError(daoSub, e)
          /\ membersSeen' = Append(membersSeen, [kind |-> "error", list |-> <<>>, message |-> e])
    /\ page' = MembersPage(route, daoSub', memberObs, profiles)
    /\ UNCHANGED <<route, profiles, memberObs, otherThanMembers>>

\* a member's state observable delivers the member's state
MemberStateNext ==
    /\ \E m \in Members :
          /\ memberObs[m].error = NoError
          /\ \E st \in MemberStates(m) :
                memberObs' = [memberObs EXCEPT ![m] = SubscribeNext(@, st)]
    /\ page' = MembersPage(route, daoSub, memberObs', profiles)
    /\ UNCHANGED <<route, profiles, daoSub, membersSeen, otherThanMembers>>

\* a member's state observable delivers an error and ends
MemberStateError ==
    /\ \E m \in Members :
          /\ memberObs[m].error = NoError
          /\ \E e \in ErrorMessages :
                memberObs' = [memberObs EXCEPT ![m] = SubscribeError(@, e)]
    /\ page' = MembersPage(route, daoSub, memberObs', profiles)
    /\ UNCHANGED <<route, profiles, daoSub, membersSeen, otherThanMembers>>

(***************************************************************************)
(* Reputation                                                              *)
(***************************************************************************)
UpperCase == {"A", "B"}
\* String.prototype.toLowerCase, letter by letter
LowerLetter(c) == IF c = "A" THEN "a" ELSE IF c = "B" THEN "b" ELSE c
toLowerCase(str) == [k \in 1..Len(str) |-> LowerLetter(str[k])]

\* addresses as a caller or the indexer may write them (checksummed or not)
Addresses == {<<"0", "x", "A", "b">>, <<"0", "x", "a", "b">>, <<"0", "x", "A", "B">>}
Supplies == {0, 100}

CouldNotFind == <<"Could not find a reputation contract with address ">>

\* the item of a reputationContract query result: null, or the queried fields
NullItem == [isNull |-> TRUE, id |-> <<>>, address |-> <<>>, totalSupply |-> 0]
Items(addr) ==
    {NullItem} \cup
    [isNull : {FALSE}, id : {toLowerCase(addr)}, address : Addresses, totalSupply : Supplies]

NoState == [address |-> <<>>, totalSupply |-> 0]
Silent == [kind |-> "none", value |-> NoState, message |-> <<>>]

\* an itemMap that names the address as it was given
itemMapKeepsCase(addr, item) ==
    IF item.isNull
    THEN [kind |-> "error", value |-> NoState, message |-> CouldNotFind \o addr]
    ELSE [kind |-> "next", message |-> <<>>,
          value |-> [address |-> item.address, totalSupply |-> item.totalSupply]]

\* itemMap of the constructor: returns the state, or throws (kind "error")
itemMap(addr, item) ==
    IF item.isNull
    THEN [kind |-> "error", value |-> NoState,
          message |-> CouldNotFind \o toLowerCase(addr)]
    ELSE [kind |-> "next", message |-> <<>>,
          value |-> [address |-> item.address, totalSupply |-> item.totalSupply]]

\* context._getObservableObject(query, itemMap): the observable passes the
\* query's item through itemMap; a value returned is emitted, an error thrown
\* becomes the observable's error and nothing is emitted
GetObservableObject(mapped) == mapped

\* the reputationContract query returns and this.state notifies
StateQueryReturns ==
    /\ stateObs.kind # "error"
    /\ \E item \in Items(repAddress) :
          /\ stateItem' = item
          /\ stateObs' = GetObservableObject(itemMap(repAddress, item))
    /\ UNCHANGED <<repAddress, holders, repOfObs, otherThanRep>>

\* the balance field of a reputation holder: absent, null, or a decimal string
Digits == <<"0", "1", "2", "3", "4", "5", "6", "7", "8", "9">>
DigitValue(c) == (CHOOSE k \in 1..10 : Digits[k] = c) - 1
Balances ==
    { [kind |-> "undefined", str |-> <<>>], [kind |-> "null", str |-> <<>>] } \cup
    [kind : {"string"}, str : {<<"0">>, <<"7">>, <<"1", "2">>}]

\* Number(x) of a decimal string or null
RECURSIVE DecimalValue(_)
DecimalValue(str) ==
    IF str = <<>> THEN 0
    ELSE 10 * DecimalValue(SubSeq(str, 1, Len(str) - 1)) + DigitValue(str[Len(str)])
Number(b) == IF b.kind = "null" THEN 0 ELSE DecimalValue(b.str)

Holders == [balance : Balances]

HolderLists == UNION { [1..n -> Holders] : n \in 0..MaxHolders }

NoHolder == [balance |-> [kind |-> "undefined", str |-> <<>>]]

\* a mapping that takes the holder at the end of the list
LastOrFalse(items) ==
    IF Len(items) > 0 THEN [isFalse |-> FALSE, holder |-> items[Len(items)]]
    ELSE [isFalse |-> TRUE, holder |-> NoHolder]

\* items.length > 0 && items[0]: the first holder, or false
FirstOrFalse(items) ==
    IF Len(items) > 0 THEN [isFalse |-> FALSE, holder |-> items[1]]
    ELSE [isFalse |-> TRUE, holder |-> NoHolder]

\* item.balance: reading a property of false gives undefined
BalanceOf(item) ==
    IF item.isFalse THEN [kind |-> "undefined", str |-> <<>>] ELSE item.holder.balance

\* the second map of reputationOf
reputationOfMap(items) ==
    LET item == FirstOrFalse(items)
        balance == BalanceOf(item)
    IN  [kind |-> "next",
         value |-> IF balance.kind # "undefined" THEN Number(balance) ELSE 0]

\* a reputationHolders query returns and the reputationOf observable notifies
ReputationOfReturns ==
    /\ \E items \in HolderLists :
          /\ holders' = items
          /\ repOfObs' = reputationOfMap(items)
    /\ UNCHANGED <<repAddress, stateItem, stateObs, otherThanRep>>

(***************************************************************************)
(* LockRow.tsx                                                             *)
(***************************************************************************)
LockingTimes == {0, 1}
Periods == {1, 2}
BatchTimes == {1, 2}

\* the first useMemo: lockingTime + period * batchTime
Releasable(ld, bt) == ld.lockingTime + ld.period * bt

\* the second useMemo: moment() >= releasable && !lockData.released
Release(t, releasable, ld) == t >= releasable /\ ~ld.released

\* React.useMemo(..., [lockData]) for both values: recomputed at the first
\* render and when lockData is another object than at the last computation
UseMemos(m, ld, bt, t) ==
    IF m.valid /\ m.dep = ld.ref THEN m
    ELSE LET releasable == Releasable(ld, bt)
         IN  [valid |-> TRUE, dep |-> ld.ref, releasable |-> releasable,
              release |-> Release(t, releasable, ld), at |-> t]

\* line 54: !lockData.released && release
ShowRelease(ld, m) == ~ld.released /\ m.release

\* an Extend control offered whenever locking has not ended
ShowExtendIgnoresTime(ended, t, m) == ~ended

\* line 55: !isLockingEnded && moment() <= releasable
ShowExtend(ended, t, m) == ~ended /\ t <= m.releasable

\* one call of the LockRow function: the memos are read at the current time,
\* the Extend condition reads the clock again, at tExtend
RenderRow(ld, bt, ended, tExtend) ==
    /\ now' = tExtend
    /\ memo' = UseMemos(memo, ld, bt, now)
    /\ row' = [rendered    |-> TRUE,
               tRelease    |-> now,
               tExtend     |-> tExtend,
               showRelease |-> ShowRelease(ld, memo'),
               showExtend  |-> ShowExtend(ended, tExtend, memo')]

ClockReads == {t \in {now, now + 1} : t <= MaxTime}

\* time passes
Tick ==
    /\ now < MaxTime
    /\ now' = now + 1
    /\ UNCHANGED <<lockData, batchTime, isLockingEnded, memo, row, otherThanLock>>

\* the row renders again with the props it had (the parent re-rendered, or
\* setIsReleasing, setIsExtending or setLockDuration changed its state)
RenderAgain ==
    /\ \E tExtend \in ClockReads : RenderRow(lockData, batchTime, isLockingEnded, tExtend)
    /\ UNCHANGED <<lockData, batchTime, isLockingEnded, otherThanLock>>

\* the parent passes another lockData object (a refetch; the lock may have
\* been released or extended meanwhile)
RenderNewLockData ==
    /\ lockData.ref < MaxObjects
    /\ \E period \in Periods, released \in BOOLEAN :
          /\ period >= lockData.period
          /\ lockData.released => released
          /\ lockData' = [lockData EXCEPT !.ref = @ + 1, !.period = period,
                                          !.released = released]
    /\ \E tExtend \in ClockReads : RenderRow(lockData', batchTime, isLockingEnded, tExtend)
    /\ UNCHANGED <<batchTime, isLockingEnded, otherThanLock>>

\* the parent passes other scheme parameters with the same lockData object
RenderNewSchemeParams ==
    /\ \E bt \in BatchTimes :
          /\ bt # batchTime
          /\ batchTime' = bt
    /\ \E tExtend \in ClockReads : RenderRow(lockData, batchTime', isLockingEnded, tExtend)
    /\ UNCHANGED <<lockData, isLockingEnded, otherThanLock>>

\* the parent reports that locking has ended
RenderLockingEnded ==
    /\ ~isLockingEnded
    /\ isLockingEnded' = TRUE
    /\ \E tExtend \in ClockReads : RenderRow(lockData, batchTime, TRUE, tExtend)
    /\ UNCHANGED <<lockData, batchTime, otherThanLock>>

(***************************************************************************)
(* Specifications                                                          *)
(***************************************************************************)
MembersIdle ==
    /\ route = NoAddress
    /\ profiles = {}
    /\ daoSub = FreshSub(NoMembers)
    /\ membersSeen = <<>>
    /\ memberObs = [m \in Members |-> FreshSub(NoMemberState)]
    /\ page = MembersPage(NoAddress, daoSub, memberObs, {})

RepIdle ==
    /\ repAddress = <<"0", "x", "a", "b">>
    /\ stateItem = NullItem
    /\ stateObs = Silent
    /\ holders = <<>>
    /\ repOfObs = [kind |-> "none", value |-> 0]

NotRendered ==
    [rendered |-> FALSE, tRelease |-> 0, tExtend |-> 0,
     showRelease |-> FALSE, showExtend |-> FALSE]
NoMemo == [valid |-> FALSE, dep |-> 0, releasable |-> 0, release |-> FALSE, at |-> 0]

LockIdle ==
    /\ now = 0
    /\ lockData = [ref |-> 1, lockingTime |-> 0, period |-> 1, released |-> FALSE]
    /\ batchTime = 1
    /\ isLockingEnded = FALSE
    /\ memo = NoMemo
    /\ row = NotRendered

GenIdle ==
    /\ pc = "done"
    /\ fs0 = <<>>
    /\ fs = <<>>
    /\ files = <<>>
    /\ solcOut = <<>>
    /\ output = <<>>
    /\ idx = 0
    /\ exitCode = 0
    /\ threw = NoStep
    /\ steps = <<>>
    /\ written = <<>>

GenInit ==
    /\ pc = "rm"
    /\ fs0 \in InitialFs
    /\ fs = fs0
    /\ files = <<>>
    /\ solcOut = <<>>
    /\ output = <<>>
    /\ idx = 0
    /\ exitCode = NoExit
    /\ threw = NoStep
    /\ steps = <<>>
    /\ written = <<>>
    /\ MembersIdle /\ RepIdle /\ LockIdle

GenNext ==
    \/ Rm
    \/ List
    \/ CompileStep
    \/ CompileThrows
    \/ RenderToc
    \/ RenderTocThrows
    \/ RenderContract
    \/ RenderContractThrows
    \/ Exit0
    \/ Catch

GenSpec == GenInit /\ [][GenNext]_vars

MembersInit ==
    /\ route \in {NoAddress, "0xdao"}
    /\ profiles \in SUBSET {AddressOf(m) : m \in Members}
    /\ daoSub = FreshSub(NoMembers)
    /\ membersSeen = <<>>
    /\ memberObs = [m \in Members |-> FreshSub(NoMemberState)]
    /\ page = MembersPage(route, daoSub, memberObs, profiles)
    /\ GenIdle /\ RepIdle /\ LockIdle

MembersNextStep ==
    \/ MembersNext
    \/ MembersError
    \/ MemberStateNext
    \/ MemberStateError

MembersSpec == MembersInit /\ [][MembersNextStep]_vars

\* new Reputation(address, context)
RepInit ==
    /\ repAddress \in Addresses
    /\ stateItem = NullItem
    /\ stateObs = Silent
    /\ holders = <<>>
    /\ repOfObs = [kind |-> "none", value |-> 0]
    /\ GenIdle /\ MembersIdle /\ LockIdle

RepNext ==
    \/ StateQueryReturns
    \/ ReputationOfReturns

RepSpec == RepInit /\ [][RepNext]_vars

\* the row before its first render
LockInit ==
    /\ now = 0
    /\ lockData \in [ref : {1}, lockingTime : LockingTimes, period : Periods,
                      released : BOOLEAN]
    /\ batchTime \in BatchTimes
    /\ isLockingEnded \in BOOLEAN
    /\ memo = NoMemo
    /\ row = NotRendered
    /\ GenIdle /\ MembersIdle /\ RepIdle

LockNext ==
    \/ Tick
    \/ RenderAgain
    \/ RenderNewLockData
    \/ RenderNewSchemeParams
    \/ RenderLockingEnded

LockSpec == LockInit /\ [][LockNext]_vars

(***************************************************************************)
(* gen.js : properties                                                     *)
(***************************************************************************)
\* an upper bound on the number of steps the script still has to take
StepsLeft ==
    CASE pc = "rm"      -> MaxContracts + 6
      [] pc = "ls"      -> MaxContracts + 5
      [] pc = "compile" -> MaxContracts + 4
      [] pc = "toc"     -> Len(output) + 3
      [] pc = "each"    -> Len(output) - idx + 2
      [] pc = "catch"   -> 1
      [] pc = "done"    -> 0

\* at each position of the script one of these steps is possible
GenCanStep ==
    Rm \/ List \/ CompileThrows \/ RenderTocThrows \/ RenderContractThrows \/ Exit0 \/ Catch

\* C1: every run of the generator ends with exactly one exit code, 0 when no
\* step threw and 1 when a step threw.  The run terminates (a step is always
\* possible until the script has exited, and every step brings the exit
\* nearer), no exit code is set before the end, and the exit code never
\* changes afterwards.
C1_ExitCodeTellsWhetherAStepThrew ==
    /\ [](pc = "done" => exitCode = IF threw = NoStep THEN 0 ELSE 1)
    /\ [](pc # "done" => exitCode = NoExit /\ ENABLED GenCanStep)
    /\ [][StepsLeft' < StepsLeft /\ (pc = "done" => exitCode' = exitCode)]_vars

\* a run that wrote pages, then threw while rendering a contract, and exited 1
C1_Witness ==
    /\ pc = "done"
    /\ exitCode = 1
    /\ threw = "contract"
    /\ Len(written) >= 2

\* the <dir> of ./contracts/<dir>/<name>.sol
DirOf(file) == Split(file, "/")[3]

\* ./docs/ref/<dir>/<contractName>.md
ClaimedDest(file, contractName) ==
    DotDocsRef \o <<"/">> \o DirOf(file) \o <<"/">> \o contractName \o <<".md">>

\* C5: every file written by a run lies under ./docs/ref and has a .md name:
\* the table of contents is ./docs/ref/README.md, the page of a contract
\* (file, contractName) is ./docs/ref/<dir>/<contractName>.md, and no file
\* outside ./docs/ref is created or overwritten.
C5_WritesOnlyMdUnderDocsRef ==
    /\ \A k \in 1..Len(written) :
          LET w == written[k]
          IN  /\ UnderDocsRef(w.path)
              /\ w.path[Len(w.path)] = ".md"
              /\ w.entry = 0 => w.path = TocDest
              /\ w.entry > 0 =>
                    w.path = ClaimedDest(output[w.entry].file, output[w.entry].contractName)
    /\ \A p \in (DOMAIN fs) \cup (DOMAIN fs0) :
          ~UnderDocsRef(p) => p \in DOMAIN fs /\ p \in DOMAIN fs0 /\ fs[p] = fs0[p]

\* the order in which a run with n compiled contracts performs its steps
ExpectedSteps(n) ==
    <<"rm", "ls", "compile", "toc">> \o [k \in 1..n |-> "contract"]

\* the files now under ./docs/ref
DocsRefFiles == {p \in DOMAIN fs : UnderDocsRef(p)}

\* C6: the steps run in the order remove, list, compile, table of contents,
\* then the contract pages one by one; after a throw no further step runs and
\* nothing written is undone; a run that exits 1 has removed the previous
\* contents of ./docs/ref, which then holds exactly the files written before
\* the failing step (none if compiling failed).
C6_FixedOrderNoRecovery ==
    /\ [](/\ IsPrefix(steps, ExpectedSteps(Len(output)))
          /\ \A k \in 1..Len(written) : written[k].entry = k - 1)
    /\ [][threw # NoStep => steps' = steps /\ written' = written /\ fs' = fs]_vars
    /\ []((pc = "done" /\ exitCode = 1) =>
            /\ \A p \in DocsRefFiles : fs[p][1] # "old"
            /\ DocsRefFiles = {written[k].path : k \in 1..Len(written)}
            /\ threw = "compile" => DocsRefFiles = {})

\* ./docs/ref had old pages; the run wrote the table of contents and a
\* contract page, threw on the next contract and exited 1
C6_Witness ==
    /\ pc = "done"
    /\ exitCode = 1
    /\ threw = "contract"
    /\ Len(written) = 2
    /\ \E p \in DOMAIN fs0 : UnderDocsRef(p) /\ p \notin DOMAIN fs

C2_OneEntryPerMember ==
    page.view = "members" =>
        /\ Len(page.children) = Len(page.members)
        /\ \A k \in 1..Len(page.members) :
              /\ page.children[k].kind # Undefined
              /\ page.children[k] = MemberView(memberObs[page.members[k]], profiles)

ErrorsSeen == {k \in 1..Len(membersSeen) : membersSeen[k].kind = "error"}

\* C3: with a DAO address in the route the page shows exactly one of three
\* views, decided by what dao.members() has delivered: the message of the
\* error if it delivered an error (whether or not data came before), the
\* members container for the last list delivered if it delivered data and no
\* error, the loading image if it delivered nothing; the page never throws.
C3_ViewFollowsMembersSubscription ==
    route # NoAddress =>
        /\ page.view \in {"error", "members", "loading"}
        /\ IF ErrorsSeen # {}
           THEN /\ page.view = "error"
                /\ \A k \in ErrorsSeen : page.message = membersSeen[k].message
           ELSE IF membersSeen # <<>>
           THEN /\ page.view = "members"
                /\ page.members = membersSeen[Len(membersSeen)].list
           ELSE page.view = "loading"

\* dao.members() delivered a list of members and then an error: the error is shown
C3_Witness ==
    /\ route # NoAddress
    /\ Len(membersSeen) = 2
    /\ membersSeen[1].kind = "next" /\ membersSeen[1].list # <<>>
    /\ membersSeen[2].kind = "error"
    /\ page.view = "error"

(***************************************************************************)
(* Reputation : properties                                                 *)
(***************************************************************************)
\* str names the address addr in lower case
IsLowerCaseOf(str, addr) ==
    /\ Len(str) = Len(addr)
    /\ \A k \in 1..Len(str) :
          /\ str[k] \notin UpperCase
          /\ str[k] = addr[k] \/ <<addr[k], str[k]>> \in {<<"A", "a">>, <<"B", "b">>}

\* C4: when the reputationContract query returns null, the state observable
\* raises an error that names the lower-cased address of the Reputation
\* object and emits no state; when it returns an item, the state emitted has
\* exactly the item's address and totalSupply and no error is raised.
C4_StateOfReputationContract ==
    stateObs.kind # "none" =>
        IF stateItem.isNull
        THEN /\ stateObs.kind = "error"
             /\ stateObs.value = NoState
             /\ Len(stateObs.message) > 1
             /\ stateObs.message[1] = CouldNotFind[1]
             /\ IsLowerCaseOf(SubSeq(stateObs.message, 2, Len(stateObs.message)), repAddress)
        ELSE /\ stateObs.kind = "next"
             /\ DOMAIN stateObs.value = {"address", "totalSupply"}
             /\ stateObs.value.address = stateItem.address
             /\ stateObs.value.totalSupply = stateItem.totalSupply

\* the query for an address written with capitals found no contract
C4_Witness ==
    /\ stateObs.kind = "error"
    /\ stateItem.isNull
    /\ \E k \in 1..Len(repAddress) : repAddress[k] \in UpperCase

\* C7: reputationOf always emits a number and never raises: 0 for an empty
\* reputationHolders list, 0 when the first holder has no balance field, and
\* otherwise Number(balance) of the first holder, whatever follows it.
C7_ReputationOfFirstHolder ==
    repOfObs.kind # "none" =>
        /\ repOfObs.kind = "next"
        /\ repOfObs.value \in Nat
        /\ repOfObs.value =
              IF holders = <<>> THEN 0
              ELSE IF holders[1].balance.kind = "undefined" THEN 0
              ELSE Number(holders[1].balance)

\* two holders were returned, the first with balance "12", the second with another
C7_Witness ==
    /\ repOfObs.kind = "next"
    /\ Len(holders) = 2
    /\ holders[1].balance = [kind |-> "string", str |-> <<"1", "2">>]
    /\ holders[2].balance # holders[1].balance
    /\ repOfObs.value = 12

(***************************************************************************)
(* LockRow.tsx : properties                                                *)
(***************************************************************************)
\* R = lockingTime + period * batchTime of the props the row was rendered with
R == lockData.lockingTime + lockData.period * batchTime

\* C9: every render of an unreleased lock at a time t >= R offers Release,
\* also after an earlier render of the same lockData before R; so such a lock
\* is never displayed with neither Release nor Extend.
C9_ReleaseOfferedOnceReleasable ==
    (row.rendered /\ ~lockData.released /\ row.tRelease >= R) =>
        /\ row.showRelease
        /\ row.showRelease \/ row.showExtend

\* C10: no render offers both Release and Extend Lock, at any current time,
\* t = R included.
C10_NeverReleaseAndExtend ==
    row.rendered => ~(row.showRelease /\ row.showExtend)

\* C10 as amended: Extend is offered only while locking has not ended and the
\* time read for it has not passed the releasable time the row holds for the
\* lockData object; Release only when the lock is unreleased and the time at
\* which the row computed release for that object had reached that releasable
\* time; the two are offered together only in a render at exactly the
\* releasable time.
C10_ReleaseAndExtendOnlyAtR ==
    row.rendered =>
        /\ row.showExtend => ~isLockingEnded /\ row.tExtend <= memo.releasable
        /\ row.showRelease => ~lockData.released /\ memo.at >= memo.releasable
        /\ (row.showRelease /\ row.showExtend) =>
              /\ row.tRelease = memo.releasable
              /\ row.tExtend = memo.releasable

\* a render at t = R that offers both controls
C10_Witness ==
    /\ row.rendered
    /\ row.showRelease
    /\ row.showExtend
    /\ row.tExtend = R

====
